---- MODULE Spec2Model ----
(***************************************************************************)
(* A model of zip.go: the merge engine ZipWithGaps, its always-equal       *)
(* specialisation Zip, and the Zipper contract they drive.                 *)
(*                                                                         *)
(* The caller's zipper z is a record: the two lengths it reports, and its  *)
(* Compare as a table over the in-range index pairs.  Two families of      *)
(* zippers are explored: zippers over two sorted sequences of numbers      *)
(* (Compare is the numeric comparison of the elements), and zippers with   *)
(* an arbitrary Compare table, whose entries may also be malformed, and    *)
(* whose lengths may be negative.                                          *)
(*                                                                         *)
(* Go indices are 0-based: the element at index i of a sequence s is       *)
(* s[i + 1] here.                                                          *)
(*                                                                         *)
(* Spec is one caller calling an entry point on z, and once more after it  *)
(* has returned; ChangingSpec is one call on a zipper whose appends change *)
(* the lengths it reports; ConcSpec is two calls running concurrently, on  *)
(* zippers of their own.                                                   *)
(***************************************************************************)
EXTENDS Integers, Sequences, FiniteSets, TLC

\* ------------------------------------------------------------------ bounds
MaxLen == 3
MaxVal == 5
MaxCells == 4
MaxSum == 2

\* ------------------------------------------------------------------- Ord
Less == -1
Equal == 0
Greater == 1
Ord == {Less, Equal, Greater}
\* a value of the underlying integer type that is none of the three
Malformed == 2 * Greater
OrdValues == Ord \cup {Malformed}

\* --------------------------------------------------------------- zippers
Values == 1 .. MaxVal

IsSorted(s) == \A k \in 1 .. Len(s) - 1 : s[k] <= s[k + 1]

SortedSeqs ==
    { s \in UNION { [1 .. n -> Values] : n \in 0 .. MaxLen } : IsSorted(s) }

Pairs(m, n) == (0 .. m - 1) \X (0 .. n - 1)

\* the comparison of a left value with a right value, with respect to the left
CompareValues(a, b) ==
    IF a < b THEN Less ELSE IF a > b THEN Greater ELSE Equal

SortedZipper(l, r) ==
    [ kind     |-> "sorted",
      left     |-> l,
      right    |-> r,
      lenLeft  |-> Len(l),
      lenRight |-> Len(r),
      cmp      |-> [ p \in Pairs(Len(l), Len(r)) |->
                       CompareValues(l[p[1] + 1], r[p[2] + 1]) ] ]

TableZipper(m, n, t) ==
    [ kind     |-> "table",
      left     |-> << >>,
      right    |-> << >>,
      lenLeft  |-> m,
      lenRight |-> n,
      cmp      |-> t ]

\* Compare sees only the relative order of the elements, so of the pairs of
\* sequences with the same order pattern one is kept: the one whose elements
\* are the numbers 1 .. k for some k.
ValuesOf(l, r) == { l[k] : k \in DOMAIN l } \cup { r[k] : k \in DOMAIN r }

Normalised(l, r) == ValuesOf(l, r) = 1 .. Cardinality(ValuesOf(l, r))

SortedZippers ==
    { SortedZipper(p[1], p[2]) :
        p \in { q \in SortedSeqs \X SortedSeqs : Normalised(q[1], q[2]) } }

TableDims ==
    { d \in (0 .. MaxLen) \X (0 .. MaxLen) : d[1] * d[2] <= MaxCells }

TableZippers ==
    UNION { { TableZipper(d[1], d[2], t) : t \in [Pairs(d[1], d[2]) -> OrdValues] }
            : d \in TableDims }

\* zippers whose LenLeft or LenRight reports a negative value
NegativeDims ==
    { d \in (-1 .. MaxLen) \X (-1 .. MaxLen) : d[1] < 0 \/ d[2] < 0 }

BrokenZippers ==
    { TableZipper(d[1], d[2], [ p \in {} |-> Equal ]) : d \in NegativeDims }

Zippers == SortedZippers \cup TableZippers \cup BrokenZippers

\* ------------------------------------------------------- Zipper methods
\* A call of method op with arguments args made by the engine on its
\* argument.  reached tells whether the call reached the caller's zipper:
\* every method the wrapper does not define is promoted from its embedded
\* Zipper.
Call(op, args, reached) == [ op |-> op, args |-> args, reached |-> reached ]

\* mutant: the wrapper does not override Compare
CompareNotOverridden(wrapped, zp, a, b) ==
    [ ret |-> zp.cmp[<< a, b >>], reached |-> TRUE ]

\* z.Compare(a, b) on the engine's argument: alwaysEqualZipper.Compare when
\* the zipper is wrapped, the caller's Compare otherwise
Compare(wrapped, zp, a, b) ==
    IF wrapped
    THEN [ ret |-> Equal, reached |-> FALSE ]
    ELSE [ ret |-> zp.cmp[<< a, b >>], reached |-> TRUE ]

LenLeft(zp) == zp.lenLeft
LenRight(zp) == zp.lenRight

\* ----------------------------------------------------------------- state
VARIABLES
    z,          \* the caller's Zipper
    entry,      \* the entry point called: "none", "ZipWithGaps" or "Zip"
    pc,         \* "idle", "loop", "done" or "panic"
    i, j,       \* the cursors of ZipWithGaps
    maxLeft,    \* the lengths read at the start of ZipWithGaps
    maxRight,
    trace,      \* the method calls the engine has made on its argument, in order
    iters,      \* loop iterations of the current run
    panicMsg,   \* which panic ended the run, "" if none
    run,        \* 1 for the first call on z, 2 for the second
    prevTrace,  \* the trace of the first call, once it has returned
    procs       \* the calls running concurrently: their zipper, entry, frame

vars == << z, entry, pc, i, j, maxLeft, maxRight, trace, iters, panicMsg,
           run, prevTrace, procs >>

\* the frame of one ZipWithGaps call, as a value
Frame ==
    [ pc |-> pc, i |-> i, j |-> j, maxLeft |-> maxLeft, maxRight |-> maxRight,
      trace |-> trace, iters |-> iters, panicMsg |-> panicMsg ]

SetFrame(s) ==
    /\ pc' = s.pc
    /\ i' = s.i
    /\ j' = s.j
    /\ maxLeft' = s.maxLeft
    /\ maxRight' = s.maxRight
    /\ trace' = s.trace
    /\ iters' = s.iters
    /\ panicMsg' = s.panicMsg

Init ==
    /\ z \in Zippers
    /\ entry = "none"
    /\ pc = "idle"
    /\ i = 0
    /\ j = 0
    /\ maxLeft = 0
    /\ maxRight = 0
    /\ trace = << >>
    /\ iters = 0
    /\ panicMsg = ""
    /\ run = 1
    /\ prevTrace = << >>
    /\ procs = << >>

\* ------------------------------------------------------------ ZipWithGaps
\* mutant: the check fires only when both lengths are negative
NegativeLengthsBoth(ml, mr) == ml < 0 /\ mr < 0

\* the length check
NegativeLengths(ml, mr) == ml < 0 \/ mr < 0

\* mutant: the loop stops as soon as one side is exhausted
LoopCondBoth(a, b, ml, mr) == a < ml /\ b < mr

\* mutant: the loop condition reads the lengths of the zipper again
LoopCondReadsAgain(a, b, ml, mr) == a < LenLeft(z) \/ b < LenRight(z)

\* the loop condition
LoopCond(a, b, ml, mr) == a < ml \/ b < mr

\* ZipWithGaps on zipper zp up to its loop: the cursors start at 0, both
\* lengths are read once, a negative length panics
Start(zp) ==
    LET ml == LenLeft(zp)
        mr == LenRight(zp)
    IN  [ pc       |-> IF NegativeLengths(ml, mr) THEN "panic" ELSE "loop",
          i        |-> 0,
          j        |-> 0,
          maxLeft  |-> ml,
          maxRight |-> mr,
          trace    |-> << Call("LenLeft", << >>, TRUE),
                          Call("LenRight", << >>, TRUE) >>,
          iters    |-> 0,
          panicMsg |-> IF NegativeLengths(ml, mr)
                       THEN "ZipWithGaps: negative lengths" ELSE "" ]

\* mutant: with the left exhausted, j is incremented before the call
OnLeftExhaustedIncrementsFirst(s) ==
    [ s EXCEPT !.trace = Append(@, Call("AddRight", << s.j + 1 >>, TRUE)),
               !.j = @ + 1 ]

\* case i >= maxLeft
OnLeftExhausted(s) ==
    [ s EXCEPT !.trace = Append(@, Call("AddRight", << s.j >>, TRUE)),
               !.j = @ + 1 ]

\* mutant: with the right exhausted, i is incremented before the call
OnRightExhaustedIncrementsFirst(s) ==
    [ s EXCEPT !.trace = Append(@, Call("AddLeft", << s.i + 1 >>, TRUE)),
               !.i = @ + 1 ]

\* case j >= maxRight
OnRightExhausted(s) ==
    [ s EXCEPT !.trace = Append(@, Call("AddLeft", << s.i >>, TRUE)),
               !.i = @ + 1 ]

\* mutant: the Less case increments i before the call
OnLessIncrementsFirst(s) ==
    [ s EXCEPT !.trace = Append(@, Call("AddLeft", << s.i + 1 >>, TRUE)),
               !.i = @ + 1 ]

\* case c == Less
OnLess(s) ==
    [ s EXCEPT !.trace = Append(@, Call("AddLeft", << s.i >>, TRUE)),
               !.i = @ + 1 ]

\* mutant: the Greater case forgets j++
OnGreaterKeepsRight(s) ==
    [ s EXCEPT !.trace = Append(@, Call("AddRight", << s.j >>, TRUE)) ]

\* mutant: the Greater case advances both cursors
OnGreaterAdvancesBoth(s) ==
    [ s EXCEPT !.trace = Append(@, Call("AddRight", << s.j >>, TRUE)),
               !.i = @ + 1,
               !.j = @ + 1 ]

\* case c == Greater
OnGreater(s) ==
    [ s EXCEPT !.trace = Append(@, Call("AddRight", << s.j >>, TRUE)),
               !.j = @ + 1 ]

\* mutant: the Equal case forgets j++
OnEqualKeepsRight(s) ==
    [ s EXCEPT !.trace = Append(@, Call("AddBoth", << s.i, s.j >>, TRUE)),
               !.i = @ + 1 ]

\* mutant: the Equal case is handled as the Less case
OnEqualAddsLeftOnly(s) ==
    [ s EXCEPT !.trace = Append(@, Call("AddLeft", << s.i >>, TRUE)),
               !.i = @ + 1 ]

\* case c == Equal
OnEqual(s) ==
    [ s EXCEPT !.trace = Append(@, Call("AddBoth", << s.i, s.j >>, TRUE)),
               !.i = @ + 1,
               !.j = @ + 1 ]

\* mutant: a value that is neither Less nor Greater is taken for Equal
OnMalformedAsEqual(s) ==
    [ s EXCEPT !.trace = Append(@, Call("AddBoth", << s.i, s.j >>, TRUE)),
               !.i = @ + 1,
               !.j = @ + 1 ]

\* default: panic
OnMalformed(s) ==
    [ s EXCEPT !.pc = "panic", !.panicMsg = "Zip: compare returned" ]

\* mutant: the Less and Greater cases are exchanged
OnCompareSwapped(wrapped, zp, s) ==
    LET c  == Compare(wrapped, zp, s.i, s.j)
        s1 == [ s EXCEPT !.trace =
                  Append(@, Call("Compare", << s.i, s.j >>, c.reached)) ]
    IN  IF c.ret = Less THEN OnGreater(s1)
        ELSE IF c.ret = Greater THEN OnLess(s1)
        ELSE IF c.ret = Equal THEN OnEqual(s1)
        ELSE OnMalformed(s1)

\* mutant: Compare is called again for the second case of the switch
OnCompareTwice(wrapped, zp, s) ==
    LET c  == Compare(wrapped, zp, s.i, s.j)
        s1 == [ s EXCEPT !.trace =
                  @ \o << Call("Compare", << s.i, s.j >>, c.reached),
                          Call("Compare", << s.i, s.j >>, c.reached) >> ]
    IN  IF c.ret = Less THEN OnLess(s1)
        ELSE IF c.ret = Greater THEN OnGreater(s1)
        ELSE IF c.ret = Equal THEN OnEqual(s1)
        ELSE OnMalformed(s1)

\* the inner switch on c := z.Compare(i, j)
OnCompare(wrapped, zp, s) ==
    LET c  == Compare(wrapped, zp, s.i, s.j)
        s1 == [ s EXCEPT !.trace =
                  Append(@, Call("Compare", << s.i, s.j >>, c.reached)) ]
    IN  IF c.ret = Less THEN OnLess(s1)
        ELSE IF c.ret = Greater THEN OnGreater(s1)
        ELSE IF c.ret = Equal THEN OnEqual(s1)
        ELSE OnMalformed(s1)

\* one iteration of the loop
Body(wrapped, zp, s) ==
    LET s1 == [ s EXCEPT !.iters = @ + 1 ]
    IN  IF s1.i >= s1.maxLeft THEN OnLeftExhausted(s1)
        ELSE IF s1.j >= s1.maxRight THEN OnRightExhausted(s1)
        ELSE OnCompare(wrapped, zp, s1)

\* the loop from frame s to the end of the call, as a function
RECURSIVE RunFrom(_, _, _)
RunFrom(wrapped, zp, s) ==
    IF s.pc # "loop" THEN s
    ELSE IF LoopCond(s.i, s.j, s.maxLeft, s.maxRight)
         THEN RunFrom(wrapped, zp, Body(wrapped, zp, s))
         ELSE [ s EXCEPT !.pc = "done" ]

\* the whole of ZipWithGaps(zp), or of ZipWithGaps(&alwaysEqualZipper{zp})
ZipWithGapsRun(wrapped, zp) == RunFrom(wrapped, zp, Start(zp))

\* ---------------------------------------------------------------- actions
\* mutant: the cursors are kept from the call before
EnterKeepsCursors(e) ==
    /\ pc = "idle"
    /\ run = 1 \/ entry = e
    /\ entry' = e
    /\ SetFrame([ Start(z) EXCEPT !.i = i, !.j = j ])
    /\ UNCHANGED << z, run, prevTrace, procs >>

\* entry point e is called on z; the same entry point on a second run
Enter(e) ==
    /\ pc = "idle"
    /\ run = 1 \/ entry = e
    /\ entry' = e
    /\ SetFrame(Start(z))
    /\ UNCHANGED << z, run, prevTrace, procs >>

CallZipWithGaps == Enter("ZipWithGaps")

\* Zip wraps z in an alwaysEqualZipper and calls ZipWithGaps on the wrapper
CallZip == Enter("Zip")

Wrapped == entry = "Zip"

Iterate ==
    /\ pc = "loop"
    /\ LoopCond(i, j, maxLeft, maxRight)
    /\ SetFrame(Body(Wrapped, z, Frame))
    /\ UNCHANGED << z, entry, run, prevTrace, procs >>

DrainRight ==
    /\ i >= maxLeft
    /\ Iterate

DrainLeft ==
    /\ i < maxLeft
    /\ j >= maxRight
    /\ Iterate

BothInRange == i < maxLeft /\ j < maxRight

CompareLess ==
    /\ BothInRange
    /\ Compare(Wrapped, z, i, j).ret = Less
    /\ Iterate

CompareGreater ==
    /\ BothInRange
    /\ Compare(Wrapped, z, i, j).ret = Greater
    /\ Iterate

CompareEqual ==
    /\ BothInRange
    /\ Compare(Wrapped, z, i, j).ret = Equal
    /\ Iterate

CompareMalformed ==
    /\ BothInRange
    /\ Compare(Wrapped, z, i, j).ret \notin Ord
    /\ Iterate

\* the loop condition is false: ZipWithGaps returns
Return ==
    /\ pc = "loop"
    /\ ~LoopCond(i, j, maxLeft, maxRight)
    /\ pc' = "done"
    /\ UNCHANGED << z, entry, i, j, maxLeft, maxRight, trace, iters, panicMsg,
                    run, prevTrace, procs >>

\* the caller keeps the calls of the first run and calls the same entry
\* point again on the same unmodified zipper
Rerun ==
    /\ pc = "done"
    /\ run = 1
    /\ run' = 2
    /\ prevTrace' = trace
    /\ trace' = << >>
    /\ pc' = "idle"
    /\ UNCHANGED << z, entry, i, j, maxLeft, maxRight, iters, panicMsg, procs >>

Next ==
    \/ CallZipWithGaps
    \/ CallZip
    \/ DrainRight
    \/ DrainLeft
    \/ CompareLess
    \/ CompareGreater
    \/ CompareEqual
    \/ CompareMalformed
    \/ Return
    \/ Rerun

Spec == Init /\ [][Next]_vars

\* a call runs on: nothing suspends or cancels it
FairSpec == Spec /\ WF_vars(Next)

\* An append of the caller's zipper changes the collections, so that the
\* zipper reports other lengths from then on (once in a call).
LengthsChange ==
    /\ pc = "loop"
    /\ \E k \in DOMAIN trace : trace[k].op \in {"AddLeft", "AddRight", "AddBoth"}
    /\ LenLeft(z) = maxLeft
    /\ LenRight(z) = maxRight
    /\ \E d \in (0 .. MaxLen) \X (0 .. MaxLen) :
          /\ d # << LenLeft(z), LenRight(z) >>
          /\ z' = [ z EXCEPT !.lenLeft = d[1], !.lenRight = d[2] ]
    /\ UNCHANGED << entry, pc, i, j, maxLeft, maxRight, trace, iters, panicMsg,
                    run, prevTrace, procs >>

\* one call on a zipper whose lengths change under the engine
NextChanging ==
    \/ CallZipWithGaps
    \/ CallZip
    \/ DrainRight
    \/ DrainLeft
    \/ CompareLess
    \/ CompareGreater
    \/ CompareEqual
    \/ CompareMalformed
    \/ Return
    \/ LengthsChange

ChangingSpec == Init /\ [][NextChanging]_vars

\* ------------------------------------------------------ concurrent calls
\* Two calls run concurrently, each on a zipper (and so an output) of its
\* own.  A call's frame is its own: the engine has no other state.
Procs == {1, 2}

\* the zippers of the concurrent calls
ConcZippers ==
    { zp \in TableZippers : zp.lenLeft + zp.lenRight <= MaxSum }

IdleFrame ==
    [ pc |-> "idle", i |-> 0, j |-> 0, maxLeft |-> 0, maxRight |-> 0,
      trace |-> << >>, iters |-> 0, panicMsg |-> "" ]

ConcInit ==
    /\ z = TableZipper(0, 0, [ p \in {} |-> Equal ])
    /\ entry = "none"
    /\ pc = "idle"
    /\ i = 0
    /\ j = 0
    /\ maxLeft = 0
    /\ maxRight = 0
    /\ trace = << >>
    /\ iters = 0
    /\ panicMsg = ""
    /\ run = 1
    /\ prevTrace = << >>
    /\ procs \in [ Procs -> { [ z |-> zp, entry |-> "none", frame |-> IdleFrame ]
                              : zp \in ConcZippers } ]

\* mutant: the cursors are package-level variables, one pair for all calls
StoreSharedCursors(p, s) ==
    [ q \in Procs |->
        IF q = p THEN [ procs[q] EXCEPT !.frame = s ]
        ELSE [ procs[q] EXCEPT !.frame.i = s.i, !.frame.j = s.j ] ]

\* call p writes its frame s: the locals of a call are its own
Store(p, s) == [ procs EXCEPT ![p].frame = s ]

\* call p enters through entry point e
ConcEnter(p, e) ==
    /\ procs[p].frame.pc = "idle"
    /\ procs' = [ Store(p, Start(procs[p].z)) EXCEPT ![p].entry = e ]
    /\ UNCHANGED << z, entry, pc, i, j, maxLeft, maxRight, trace, iters,
                    panicMsg, run, prevTrace >>

ConcCallZipWithGaps == \E p \in Procs : ConcEnter(p, "ZipWithGaps")

ConcCallZip == \E p \in Procs : ConcEnter(p, "Zip")

\* call p makes one iteration of its loop
ConcIterate ==
    \E p \in Procs :
        LET s == procs[p].frame
        IN  /\ s.pc = "loop"
            /\ LoopCond(s.i, s.j, s.maxLeft, s.maxRight)
            /\ procs' = Store(p, Body(procs[p].entry = "Zip", procs[p].z, s))
            /\ UNCHANGED << z, entry, pc, i, j, maxLeft, maxRight, trace, iters,
                            panicMsg, run, prevTrace >>

\* call p returns
ConcReturn ==
    \E p \in Procs :
        LET s == procs[p].frame
        IN  /\ s.pc = "loop"
            /\ ~LoopCond(s.i, s.j, s.maxLeft, s.maxRight)
            /\ procs' = Store(p, [ s EXCEPT !.pc = "done" ])
            /\ UNCHANGED << z, entry, pc, i, j, maxLeft, maxRight, trace, iters,
                            panicMsg, run, prevTrace >>

ConcNext ==
    \/ ConcCallZipWithGaps
    \/ ConcCallZip
    \/ ConcIterate
    \/ ConcReturn

ConcSpec == ConcInit /\ [][ConcNext]_vars

TypeOK ==
    /\ z \in Zippers
    /\ entry \in {"none", "ZipWithGaps", "Zip"}
    /\ pc \in {"idle", "loop", "done", "panic"}
    /\ i \in 0 .. MaxLen
    /\ j \in 0 .. MaxLen
    /\ maxLeft \in -1 .. MaxLen
    /\ maxRight \in -1 .. MaxLen
    /\ iters \in 0 .. 2 * MaxLen
    /\ run \in 1 .. 2

\* ------------------------------------------------------ reading a trace
IsAppend(c) == c.op \in {"AddLeft", "AddRight", "AddBoth"}
TouchesLeft(c) == c.op \in {"AddLeft", "AddBoth"}
TouchesRight(c) == c.op \in {"AddRight", "AddBoth"}

\* the append calls of trace t, in order
Appends(t) == SelectSeq(t, IsAppend)

\* the ops and arguments of the append calls of t, in order
AppendCalls(t) ==
    [ k \in 1 .. Len(Appends(t)) |-> << Appends(t)[k].op, Appends(t)[k].args >> ]

\* the left indices passed to the successive AddLeft / AddBoth calls of t
LeftIndices(t) ==
    LET u == SelectSeq(t, TouchesLeft)
    IN  [ k \in 1 .. Len(u) |-> u[k].args[1] ]

\* the right indices passed to the successive AddRight / AddBoth calls of t
RightIndices(t) ==
    LET u == SelectSeq(t, TouchesRight)
    IN  [ k \in 1 .. Len(u) |-> u[k].args[Len(u[k].args)] ]

Count(t, P(_)) == Len(SelectSeq(t, P))

\* how often index a occurs in the index sequence q
Occurrences(q, a) == Cardinality({ k \in DOMAIN q : q[k] = a })

\* the run has returned normally
Completed == pc = "done"

\* ------------------------------------------------------------------- C1
\* C1: when a run over non-negative lengths m, n with a Compare that only
\* returns Less, Equal or Greater has completed, every left index 0..m-1 has
\* been the argument of exactly one AddLeft or AddBoth call, every right index
\* 0..n-1 of exactly one AddRight or AddBoth call, and no other index of any.
C1_EveryIndexExactlyOnce ==
    Completed =>
        /\ \A a \in 0 .. LenLeft(z) - 1 : Occurrences(LeftIndices(trace), a) = 1
        /\ \A b \in 0 .. LenRight(z) - 1 : Occurrences(RightIndices(trace), b) = 1
        /\ Len(LeftIndices(trace)) = LenLeft(z)
        /\ Len(RightIndices(trace)) = LenRight(z)

\* a completed ZipWithGaps run over an arbitrary Compare table that made all
\* three kinds of append
C1_Witness ==
    /\ Completed
    /\ entry = "ZipWithGaps"
    /\ z.kind = "table"
    /\ \A o \in {"AddLeft", "AddRight", "AddBoth"} :
          \E k \in DOMAIN trace : trace[k].op = o

\* ------------------------------------------------------------------- C2
\* the indices a for which t holds a call op(a)
Singles(t, op) == { t[k].args[1] : k \in { n \in DOMAIN t : t[n].op = op } }

\* the right indices whose element is Equal to left element a, and conversely
EqualRights(zp, a) == { b \in 0 .. zp.lenRight - 1 : zp.cmp[<< a, b >>] = Equal }
EqualLefts(zp, b) == { a \in 0 .. zp.lenLeft - 1 : zp.cmp[<< a, b >>] = Equal }

\* the elements before index a of the left sequence with the value of element
\* a, and the same on the right
EarlierLefts(zp, a) == { x \in 0 .. a - 1 : zp.left[x + 1] = zp.left[a + 1] }
EarlierRights(zp, b) == { y \in 0 .. b - 1 : zp.right[y + 1] = zp.right[b + 1] }

SortedRunCompleted == Completed /\ entry = "ZipWithGaps" /\ z.kind = "sorted"

BothOnlyOnEqual ==
    \A k \in DOMAIN trace :
        trace[k].op = "AddBoth" => z.cmp[trace[k].args] = Equal

\* C2 as stated: over sorted sequences AddBoth(i, j) is called only for pairs
\* with Compare(i, j) = Equal, AddLeft(i) exactly for the left elements with no
\* Equal element in the right sequence, AddRight(j) exactly for the right
\* elements with no Equal element in the left sequence.
C2_AsStated ==
    SortedRunCompleted =>
        /\ BothOnlyOnEqual
        /\ Singles(trace, "AddLeft") =
              { a \in 0 .. z.lenLeft - 1 : EqualRights(z, a) = {} }
        /\ Singles(trace, "AddRight") =
              { b \in 0 .. z.lenRight - 1 : EqualLefts(z, b) = {} }

\* C2 (amended): over sequences sorted in non-decreasing order AddBoth(i, j) is
\* called only for pairs with Compare(i, j) = Equal, AddLeft(i) exactly for the
\* left elements that have no more Equal elements in the right sequence than
\* equal elements before them in the left sequence (so for every left element
\* with no Equal element on the right), and AddRight(j) symmetrically; on
\* left = [1,3,5], right = [2,3,4] the calls are AddLeft(0), AddRight(0),
\* AddBoth(1,1), AddRight(2), AddLeft(2).
C2_Classifies ==
    SortedRunCompleted =>
        /\ BothOnlyOnEqual
        /\ Singles(trace, "AddLeft") =
              { a \in 0 .. z.lenLeft - 1 :
                  Cardinality(EqualRights(z, a)) <= Cardinality(EarlierLefts(z, a)) }
        /\ Singles(trace, "AddRight") =
              { b \in 0 .. z.lenRight - 1 :
                  Cardinality(EqualLefts(z, b)) <= Cardinality(EarlierRights(z, b)) }
        /\ (z.left = << 1, 3, 5 >> /\ z.right = << 2, 3, 4 >>) =>
              AppendCalls(trace) =
                  << << "AddLeft", << 0 >> >>, << "AddRight", << 0 >> >>,
                     << "AddBoth", << 1, 1 >> >>, << "AddRight", << 2 >> >>,
                     << "AddLeft", << 2 >> >> >>

\* a completed run over sorted sequences that paired two elements, added a
\* left element with no equal on the right, and added on its own a left
\* element that does have an equal on the right
C2_Witness ==
    /\ SortedRunCompleted
    /\ \E k \in DOMAIN trace : trace[k].op = "AddBoth"
    /\ \E a \in Singles(trace, "AddLeft") : EqualRights(z, a) = {}
    /\ \E a \in Singles(trace, "AddLeft") : EqualRights(z, a) # {}

\* ------------------------------------------------------------------- C3
\* C3: at every point of a call the left indices passed to the successive
\* AddLeft / AddBoth calls are 0, 1, 2, ... without gap or repeat, likewise the
\* right indices passed to AddRight / AddBoth, and every index a cursor has
\* moved past has been passed on already: nothing is held back or reordered.
C3_IncreasingOrder ==
    LET L == LeftIndices(trace)
        R == RightIndices(trace)
    IN  pc # "idle" =>
            /\ \A k \in DOMAIN L : L[k] = k - 1
            /\ \A k \in DOMAIN R : R[k] = k - 1
            /\ Len(L) = i
            /\ Len(R) = j

\* in the middle of a ZipWithGaps run, two appends made on each side, single
\* and paired ones among them
C3_Witness ==
    /\ pc = "loop"
    /\ entry = "ZipWithGaps"
    /\ Len(LeftIndices(trace)) >= 2
    /\ Len(RightIndices(trace)) >= 2
    /\ \A o \in {"AddLeft", "AddRight", "AddBoth"} :
          \E k \in DOMAIN trace : trace[k].op = o

\* ------------------------------------------------------------------- C4
\* C4: when LenLeft() or LenRight() reports a negative value, a call of
\* ZipWithGaps or of Zip has panicked with the negative-lengths message and
\* has called nothing but the two length methods: no Compare and no append.
C4_NegativeLengthPanics ==
    (entry # "none" /\ (LenLeft(z) < 0 \/ LenRight(z) < 0)) =>
        /\ pc = "panic"
        /\ panicMsg = "ZipWithGaps: negative lengths"
        /\ \A k \in DOMAIN trace : trace[k].op \in {"LenLeft", "LenRight"}

\* Zip has panicked on a zipper with a negative right and a positive left length
C4_Witness ==
    /\ pc = "panic"
    /\ entry = "Zip"
    /\ LenRight(z) < 0
    /\ LenLeft(z) > 0

\* ------------------------------------------------------------------- C5
\* the Compare calls of the trace that reached z and got a malformed result
MalformedCalls ==
    { k \in DOMAIN trace :
        /\ trace[k].op = "Compare"
        /\ trace[k].reached
        /\ z.cmp[trace[k].args] \notin Ord }

\* z with its Compare repaired at pair p to return v
Repaired(zp, p, v) == [ zp EXCEPT !.cmp[p] = v ]

\* C5: when Compare has returned a value outside {Less, Equal, Greater} for
\* the pair (i, j), ZipWithGaps has panicked with the compare message at that
\* call: the call is the last the engine made, the cursors still stand at
\* (i, j), no append was made for index i or j, and the calls made are those a
\* run makes up to that Compare when the pair compares Less, Equal or Greater.
\* The compare panic has no other cause.
C5_MalformedComparePanics ==
    /\ \A k \in MalformedCalls :
          /\ k = Len(trace)
          /\ pc = "panic"
          /\ panicMsg = "Zip: compare returned"
          /\ trace[k].args = << i, j >>
          /\ Len(LeftIndices(trace)) = i
          /\ Len(RightIndices(trace)) = j
          /\ \A v \in Ord :
                LET r == ZipWithGapsRun(FALSE, Repaired(z, << i, j >>, v)).trace
                IN  /\ Len(r) > k
                    /\ SubSeq(r, 1, k) = trace
                    /\ IsAppend(r[k + 1])
    /\ panicMsg = "Zip: compare returned" =>
          /\ entry = "ZipWithGaps"
          /\ Len(trace) \in MalformedCalls

\* ZipWithGaps has panicked on a malformed comparison after appends on both
\* sides
C5_Witness ==
    /\ pc = "panic"
    /\ panicMsg = "Zip: compare returned"
    /\ i > 0
    /\ j > 0
    /\ \E k \in DOMAIN trace : trace[k].op = "AddLeft"

\* ------------------------------------------------------------------- C6
Min(a, b) == IF a < b THEN a ELSE b
Max(a, b) == IF a > b THEN a ELSE b

\* positional pairing of lengths m and n: AddBoth(k, k) for k < min(m, n), then
\* the tail of the longer sequence one index at a time
PositionalPairing(m, n) ==
    [ k \in 1 .. Max(m, n) |->
        IF k <= Min(m, n) THEN << "AddBoth", << k - 1, k - 1 >> >>
        ELSE IF m > n THEN << "AddLeft", << k - 1 >> >>
        ELSE << "AddRight", << k - 1 >> >> ]

\* C6: on non-negative lengths m, n Zip does not panic, the append calls it
\* has made so far are an initial part of AddBoth(0,0), ..., AddBoth(min-1,
\* min-1) followed by the tail of the longer sequence in ascending order, and
\* when it has returned they are all of these, max(m, n) calls.
C6_ZipPairsPositions ==
    (entry = "Zip" /\ pc # "idle" /\ LenLeft(z) >= 0 /\ LenRight(z) >= 0) =>
        LET want == PositionalPairing(LenLeft(z), LenRight(z))
            got  == AppendCalls(trace)
        IN  /\ pc # "panic"
            /\ Len(got) <= Len(want)
            /\ got = SubSeq(want, 1, Len(got))
            /\ Completed => Len(got) = Max(LenLeft(z), LenRight(z))

\* Zip has returned on sequences of lengths 2 and 3 whose first elements differ
C6_Witness ==
    /\ Completed
    /\ entry = "Zip"
    /\ z.kind = "sorted"
    /\ Len(z.left) = 2
    /\ Len(z.right) = 3
    /\ z.left[1] # z.right[1]

\* ------------------------------------------------------------------- C7
\* a zipper with the lengths of zp whose Compare always returns Equal
AlwaysEqual(zp) ==
    TableZipper(zp.lenLeft, zp.lenRight,
                [ p \in Pairs(zp.lenLeft, zp.lenRight) |-> Equal ])

\* C7: Zip(z) never calls z's own Compare and never ends in the compare
\* panic, whatever z.Compare would return, and it ends as ZipWithGaps ends on a
\* zipper of the same lengths whose Compare always returns Equal, with the same
\* sequence of append calls.
C7_ZipIsZipWithGapsOnEqual ==
    entry = "Zip" =>
        /\ \A k \in DOMAIN trace : trace[k].op = "Compare" => ~trace[k].reached
        /\ panicMsg # "Zip: compare returned"
        /\ pc \in {"done", "panic"} =>
              LET r == ZipWithGapsRun(FALSE, AlwaysEqual(z))
              IN  /\ r.pc = pc
                  /\ AppendCalls(r.trace) = AppendCalls(trace)

\* Zip has returned on a zipper whose Compare is malformed on the first pair
\* and not Equal on another pair the engine compared
C7_Witness ==
    /\ Completed
    /\ entry = "Zip"
    /\ z.kind = "table"
    /\ z.lenLeft >= 2
    /\ z.lenRight >= 2
    /\ z.cmp[<< 0, 0 >>] = Malformed
    /\ z.cmp[<< 1, 1 >>] = Less

\* ------------------------------------------------------------------- C8
\* the cursors before the k-th call of the trace
LeftBefore(k) == Len(LeftIndices(SubSeq(trace, 1, k - 1)))
RightBefore(k) == Len(RightIndices(SubSeq(trace, 1, k - 1)))

\* C8: every call the engine makes once a side is exhausted (or empty from the
\* start) is a single append of the other side at its cursor, AddRight(j) when
\* the left is exhausted and AddLeft(i) when the right is, so never a Compare
\* and in ascending order; when the run has returned every remaining index
\* has been appended.
C8_DrainsWithoutCompare ==
    pc # "idle" =>
        /\ \A k \in DOMAIN trace :
              LET a == LeftBefore(k)
                  b == RightBefore(k)
              IN  (trace[k].op \notin {"LenLeft", "LenRight"}
                     /\ (a >= maxLeft \/ b >= maxRight)) =>
                     /\ ~(a >= maxLeft /\ b >= maxRight)
                     /\ a >= maxLeft =>
                           (trace[k].op = "AddRight" /\ trace[k].args = << b >>)
                     /\ b >= maxRight =>
                           (trace[k].op = "AddLeft" /\ trace[k].args = << a >>)
        /\ Completed =>
              /\ Len(LeftIndices(trace)) = maxLeft
              /\ Len(RightIndices(trace)) = maxRight

\* a ZipWithGaps run that compared, then exhausted the left side and appended
\* two remaining right indices, has returned
C8_Witness ==
    /\ Completed
    /\ entry = "ZipWithGaps"
    /\ Len(trace) >= 5
    /\ trace[3].op = "Compare"
    /\ trace[Len(trace)].op = "AddRight"
    /\ trace[Len(trace) - 1].op = "AddRight"
    /\ LeftBefore(Len(trace) - 1) >= maxLeft

\* ------------------------------------------------------------------- C9
IsBoth(c) == c.op = "AddBoth"

\* the engine gets only Less, Equal or Greater from Compare in this call
CompareWellFormed == Wrapped \/ \A p \in DOMAIN z.cmp : z.cmp[p] \in Ord

\* the iterations made so far are as many as the append calls, m + n less the
\* AddBoth calls, and at most m + n
IterationsCounted ==
    /\ iters = Len(Appends(trace))
    /\ iters = i + j - Count(trace, IsBoth)
    /\ iters <= maxLeft + maxRight

\* C9: a call on non-negative lengths m, n whose Compare returns only Less,
\* Equal or Greater returns; it has returned only with i = m and j = n; the
\* iterations it made are as many as its append calls, at least max(m, n), at
\* most m + n, precisely m + n less the number of AddBoth calls, and none when
\* m = n = 0.
C9_Terminates ==
    /\ [](pc = "loop" /\ CompareWellFormed => IterationsCounted)
    /\ [](Completed =>
            /\ i = LenLeft(z)
            /\ j = LenRight(z)
            /\ IterationsCounted
            /\ iters >= Max(LenLeft(z), LenRight(z))
            /\ iters <= LenLeft(z) + LenRight(z)
            /\ iters = LenLeft(z) + LenRight(z) - Count(trace, IsBoth)
            /\ (LenLeft(z) = 0 /\ LenRight(z) = 0) => iters = 0)
    /\ (pc = "loop" /\ CompareWellFormed) ~> Completed

\* a ZipWithGaps run over an unsorted Compare table has returned after fewer
\* than m + n and more than max(m, n) iterations
C9_Witness ==
    /\ Completed
    /\ entry = "ZipWithGaps"
    /\ z.kind = "table"
    /\ iters < LenLeft(z) + LenRight(z)
    /\ iters > Max(LenLeft(z), LenRight(z))

\* ------------------------------------------------------------------ C10
\* C10: a second run of the same entry point over the same unmodified zipper
\* makes the calls of the first run, the same methods with the same indices
\* in the same order: at every point its calls are an initial part of the
\* first run's, and when it has returned they are all of them.
C10_Deterministic ==
    (run = 2 /\ pc # "idle") =>
        /\ Len(trace) <= Len(prevTrace)
        /\ trace = SubSeq(prevTrace, 1, Len(trace))
        /\ Completed => AppendCalls(trace) = AppendCalls(prevTrace)

\* the second ZipWithGaps run over the same zipper has returned, after appends
\* of all three kinds
C10_Witness ==
    /\ run = 2
    /\ Completed
    /\ entry = "ZipWithGaps"
    /\ \A o \in {"AddLeft", "AddRight", "AddBoth"} :
          \E k \in DOMAIN trace : trace[k].op = o

\* ------------------------------------------------------------------ C12
IsCompare(c) == c.op = "Compare"

\* the calls a step adds to the trace
NewCalls == SubSeq(trace', Len(trace) + 1, Len(trace'))

\* one step of the loop: it returns with nothing called and the cursors in
\* place, or panics with no append and the cursors in place, or makes one
\* iteration with exactly one append call that advances the cursors it
\* consumed by one and no other: AddLeft(i) and i, AddRight(j) and j,
\* AddBoth(i, j) and both; with both cursors in range the call is the one the
\* result of Compare(i, j) selects.
LoopStep ==
    LET apps == Appends(NewCalls)
    IN  \/ pc' = "done" /\ NewCalls = << >> /\ i' = i /\ j' = j
        \/ pc' = "panic" /\ apps = << >> /\ i' = i /\ j' = j
        \/ /\ pc' = "loop"
           /\ iters' = iters + 1
           /\ Len(apps) = 1
           /\ \/ apps[1].op = "AddLeft" /\ apps[1].args = << i >>
                 /\ i' = i + 1 /\ j' = j
              \/ apps[1].op = "AddRight" /\ apps[1].args = << j >>
                 /\ i' = i /\ j' = j + 1
              \/ apps[1].op = "AddBoth" /\ apps[1].args = << i, j >>
                 /\ i' = i + 1 /\ j' = j + 1
           /\ BothInRange =>
                 LET c == Compare(Wrapped, z, i, j).ret
                 IN  /\ c = Less => apps[1].op = "AddLeft"
                     /\ c = Greater => apps[1].op = "AddRight"
                     /\ c = Equal => apps[1].op = "AddBoth"

\* C12: every loop iteration of ZipWithGaps issues exactly one append call and
\* advances only the cursors that call consumed, by one: on Less AddLeft(i) and
\* i, on Greater AddRight(j) and j, on Equal AddBoth(i, j) and both; no cursor
\* decreases or moves by more than one.
C12_OneAppendPerIteration == [][pc = "loop" => LoopStep]_vars

\* in the middle of a ZipWithGaps run, after three iterations that compared
\* and made one append of each kind
C12_Witness ==
    /\ pc = "loop"
    /\ entry = "ZipWithGaps"
    /\ iters = 3
    /\ Count(trace, IsCompare) = 3
    /\ \A o \in {"AddLeft", "AddRight", "AddBoth"} :
          \E k \in DOMAIN trace : trace[k].op = o
    /\ LoopCond(i, j, maxLeft, maxRight)

\* ------------------------------------------------------------------ C13
LeftRange == 0 .. LenLeft(z) - 1
RightRange == 0 .. LenRight(z) - 1

\* the call passes only indices of the sequences
InRange(c) ==
    /\ c.op \in {"Compare", "AddBoth"} =>
          c.args[1] \in LeftRange /\ c.args[2] \in RightRange
    /\ c.op = "AddLeft" => c.args[1] \in LeftRange
    /\ c.op = "AddRight" => c.args[1] \in RightRange

\* the call is in its loop, or has left it by returning or by the compare panic
LoopEntered ==
    pc \in {"loop", "done"} \/ (pc = "panic" /\ panicMsg = "Zip: compare returned")

\* C13: every Compare, AddLeft, AddRight and AddBoth call the engine has made
\* passed indices i with 0 <= i < LenLeft and j with 0 <= j < LenRight, and
\* from the entry of the loop on the cursors satisfy 0 <= i <= LenLeft and
\* 0 <= j <= LenRight.
C13_IndicesInRange ==
    /\ \A k \in DOMAIN trace : InRange(trace[k])
    /\ LoopEntered =>
          /\ 0 <= i /\ i <= LenLeft(z)
          /\ 0 <= j /\ j <= LenRight(z)

\* a ZipWithGaps run has returned after a single append of each side and a
\* Compare and an AddBoth on the last pair of indices
C13_Witness ==
    /\ Completed
    /\ entry = "ZipWithGaps"
    /\ LenLeft(z) >= 2
    /\ LenRight(z) >= 2
    /\ \E k \in DOMAIN trace : trace[k].op = "AddLeft"
    /\ \E k \in DOMAIN trace : trace[k].op = "AddRight"
    /\ trace[Len(trace)].op = "AddBoth"
    /\ trace[Len(trace)].args = << LenLeft(z) - 1, LenRight(z) - 1 >>

\* ------------------------------------------------------------------ C14
\* both cursors are in range before the k-th call of the trace
BothInRangeBefore(k) == LeftBefore(k) < maxLeft /\ RightBefore(k) < maxRight

CompareCalls == { k \in DOMAIN trace : IsCompare(trace[k]) }

\* C14: the engine calls Compare exactly once in every iteration in which
\* both cursors are in range, on the pair of the cursors and before the
\* iteration's append, and in no other iteration; it never passes the same
\* pair twice; it makes no Compare call when a sequence is empty and at most
\* LenLeft + LenRight - 1 otherwise.
C14_ComparesOnce ==
    LoopEntered =>
        /\ \A k \in CompareCalls :
              /\ BothInRangeBefore(k)
              /\ trace[k].args = << LeftBefore(k), RightBefore(k) >>
              /\ k = Len(trace) \/ IsAppend(trace[k + 1])
        /\ \A k \in DOMAIN trace :
              IsAppend(trace[k]) => (BothInRangeBefore(k) <=> k - 1 \in CompareCalls)
        /\ \A k \in CompareCalls : \A n \in CompareCalls :
              k # n => trace[k].args # trace[n].args
        /\ IF maxLeft = 0 \/ maxRight = 0
           THEN CompareCalls = {}
           ELSE Cardinality(CompareCalls) <= maxLeft + maxRight - 1

\* a ZipWithGaps run over two sequences of two or more elements has returned
\* after LenLeft + LenRight - 1 comparisons
C14_Witness ==
    /\ Completed
    /\ entry = "ZipWithGaps"
    /\ maxLeft >= 2
    /\ maxRight >= 2
    /\ Cardinality(CompareCalls) = maxLeft + maxRight - 1

\* ------------------------------------------------------------------ C15
\* how often value v occurs in sequence s
Copies(s, v) == Cardinality({ k \in DOMAIN s : s[k] = v })

\* the calls of the trace with method op whose first argument is an index of
\* an element of value v in sequence s
CallsFor(op, s, v) ==
    { k \in DOMAIN trace : trace[k].op = op /\ s[trace[k].args[1] + 1] = v }

\* C15: over sequences sorted in non-decreasing order with repeated values, a
\* value with a copies on the left and b on the right gets exactly min(a, b)
\* AddBoth calls, which pair its copies one to one in index order, and its
\* surplus copies single calls: a - min(a, b) AddLeft and b - min(a, b)
\* AddRight.
C15_PairsRepeatsOneToOne ==
    SortedRunCompleted =>
        /\ \A v \in Values :
              LET a == Copies(z.left, v)
                  b == Copies(z.right, v)
              IN  /\ Cardinality(CallsFor("AddBoth", z.left, v)) = Min(a, b)
                  /\ Cardinality(CallsFor("AddLeft", z.left, v)) = a - Min(a, b)
                  /\ Cardinality(CallsFor("AddRight", z.right, v)) = b - Min(a, b)
        /\ \A k \in DOMAIN trace :
              trace[k].op = "AddBoth" =>
                 LET x == trace[k].args[1]
                     y == trace[k].args[2]
                 IN  /\ z.left[x + 1] = z.right[y + 1]
                     /\ Cardinality(EarlierLefts(z, x))
                           = Cardinality(EarlierRights(z, y))

\* a run has returned over sorted sequences in which one value has more copies
\* on the left and another more copies on the right, both present on both sides
C15_Witness ==
    /\ SortedRunCompleted
    /\ \E v \in Values :
          Copies(z.left, v) > Copies(z.right, v) /\ Copies(z.right, v) >= 1
    /\ \E v \in Values :
          Copies(z.right, v) > Copies(z.left, v) /\ Copies(z.left, v) >= 1

\* ------------------------------------------------------------------ C16
\* the values the successive append calls of the trace emit: left[i] for
\* AddLeft(i) and AddBoth(i, j), right[j] for AddRight(j)
Emitted ==
    LET u == Appends(trace)
    IN  [ k \in 1 .. Len(u) |->
            IF u[k].op = "AddRight" THEN z.right[u[k].args[1] + 1]
            ELSE z.left[u[k].args[1] + 1] ]

\* C16: over sequences sorted in non-decreasing order the values emitted by
\* the successive append calls of ZipWithGaps are in non-decreasing order at
\* every point of the run, and when it has returned they are the sorted merge
\* of the inputs with each equal pair emitted once: every value as often as on
\* the side where it has more copies.
C16_EmitsSortedMerge ==
    (entry = "ZipWithGaps" /\ z.kind = "sorted" /\ pc # "idle") =>
        /\ IsSorted(Emitted)
        /\ Completed =>
              \A v \in Values :
                  Copies(Emitted, v) = Max(Copies(z.left, v), Copies(z.right, v))

\* ZipWithGaps has returned on left = [1,3,5], right = [2,3,4], having emitted
\* 1, 2, 3, 4, 5
C16_Witness ==
    /\ Completed
    /\ entry = "ZipWithGaps"
    /\ z.kind = "sorted"
    /\ z.left = << 1, 3, 5 >>
    /\ z.right = << 2, 3, 4 >>
    /\ Emitted = << 1, 2, 3, 4, 5 >>

\* ------------------------------------------------------------------ C17
IsLenLeft(c) == c.op = "LenLeft"
IsLenRight(c) == c.op = "LenRight"

\* the lengths the zipper reports now are not the ones read at the start
LengthsChanged == LenLeft(z) # maxLeft \/ LenRight(z) # maxRight

\* C17: a call has read LenLeft() and LenRight() exactly once each, as its
\* first two calls, and the values read bound the whole run although the
\* zipper reports other lengths after an append: the indices appended on each
\* side are 0, 1, 2, ... below the value read, and when the run has returned
\* they are all of them.
C17_LengthsReadOnce ==
    pc # "idle" =>
        /\ Len(trace) >= 2
        /\ IsLenLeft(trace[1])
        /\ IsLenRight(trace[2])
        /\ Count(trace, IsLenLeft) = 1
        /\ Count(trace, IsLenRight) = 1
        /\ LET L == LeftIndices(trace)
               R == RightIndices(trace)
           IN  /\ \A k \in DOMAIN L : L[k] = k - 1 /\ L[k] < maxLeft
               /\ \A k \in DOMAIN R : R[k] = k - 1 /\ R[k] < maxRight
               /\ Completed => Len(L) = maxLeft /\ Len(R) = maxRight

\* a ZipWithGaps run has returned; the zipper reported a longer left and a
\* shorter right sequence after its first appends
C17_Witness ==
    /\ Completed
    /\ entry = "ZipWithGaps"
    /\ LenLeft(z) > maxLeft
    /\ LenRight(z) < maxRight
    /\ maxLeft >= 2

\* ------------------------------------------------------------------ C11
\* the frame with which call p ends when it runs alone
Alone(p) == ZipWithGapsRun(procs[p].entry = "Zip", procs[p].z)

\* C11: of two calls running concurrently on zippers and outputs of their
\* own, under every interleaving of their steps each has made, at every
\* point, an initial part of the calls it makes when it runs alone, and when
\* it has ended it has ended the same way (returned or panicked) with the
\* same calls, so with the same output.
C11_ConcurrentCallsIndependent ==
    \A p \in Procs :
        LET s == procs[p].frame
        IN  s.pc # "idle" =>
               /\ Len(s.trace) <= Len(Alone(p).trace)
               /\ s.trace = SubSeq(Alone(p).trace, 1, Len(s.trace))
               /\ s.pc \in {"done", "panic"} => s = Alone(p)

\* both calls are in the middle of their loops, each after an append, on
\* different zippers
C11_Witness ==
    /\ \A p \in Procs :
          /\ procs[p].frame.pc = "loop"
          /\ procs[p].frame.iters >= 1
          /\ LoopCond(procs[p].frame.i, procs[p].frame.j,
                      procs[p].frame.maxLeft, procs[p].frame.maxRight)
    /\ procs[1].z # procs[2].z
    /\ procs[1].entry = "ZipWithGaps"

====
